---- MODULE Spec2Model ----
(***************************************************************************)
(* Model of microdata_tools.validation.steps: validate_dataset and its     *)
(* rules (dataset_validator.py) and get_temporal_data (data_reader.py).    *)
(*                                                                         *)
(* A nullable cell is a set with at most one element: {} is null, {v} is   *)
(* the value v.  A unit_id is a sequence of characters.  A pyarrow filter  *)
(* expression evaluates to "T", "F" or "N" (null) and a filter keeps the   *)
(* rows whose expression is "T".  A value is written as its text; a        *)
(* non-STRING measure has no empty text, the reader makes it null.         *)
(***************************************************************************)
EXTENDS Integers, Sequences, FiniteSets

MaxRows == 3

----------------------------------------------------------------------------
(* The canonical table: the rows the checks are run on.                    *)

UnitA == <<"a">>
UnitAB == <<"a", "b">>
UnitB == <<"b">>

Row(u, v, s, e) ==
    [unit_id |-> u, value |-> v, start_epoch_days |-> s, stop_epoch_days |-> e]

(* The rows the tables are built from.  Identifier a carries the intervals  *)
(* over the days 1..3 with and without nulls; ab shares its first          *)
(* character, b does not; the last four rows break the identifier and the  *)
(* value rules.                                                            *)
RowDomain ==
    {Row({UnitA}, {"c1"}, {se[1]}, {se[2]}) :
        se \in {<<1, 1>>, <<1, 2>>, <<1, 3>>, <<2, 2>>, <<2, 3>>}}
        \cup {Row({UnitA}, {"c1"}, {1}, {}), Row({UnitA}, {"c1"}, {2}, {}),
              Row({UnitA}, {"c1"}, {}, {2}), Row({UnitA}, {"c1"}, {}, {}),
              Row({UnitAB}, {"s1"}, {}, {2}),
              Row({UnitB}, {"x9"}, {}, {3}), Row({UnitB}, {"c1"}, {1}, {2}),
              Row({UnitB}, {"c1"}, {2}, {2}),
              Row({}, {"c1"}, {1}, {2}), Row({<<>>}, {"c1"}, {2}, {1}),
              Row({UnitA}, {}, {}, {}), Row({UnitA}, {""}, {1}, {2})}

Tables == UNION {[1..n -> RowDomain] : n \in 0..MaxRows}

TemporalityTypes == {"FIXED", "STATUS", "ACCUMULATED", "EVENT"}
DataTypes == {"STRING", "LONG"}
(* An optional list argument: {} is None, {l} is the list l. *)
CodeLists == {{}, {<<>>}, {<<[code |-> "c1"], [code |-> "c1"]>>}}
SentinelLists == {{}, {<<[code |-> "s1"]>>}}

----------------------------------------------------------------------------
(* pyarrow expressions                                                     *)

Get(x) == CHOOSE v \in x : TRUE

Bool3(b) == IF b THEN "T" ELSE "F"

is_null(x) == Bool3(x = {})

is_valid(x) == Bool3(x # {})

(* or_kleene with a null operand always giving null. *)
or_null_propagating(a, b) ==
    IF a = "N" \/ b = "N" THEN "N" ELSE Bool3(a = "T" \/ b = "T")

or_kleene(a, b) ==
    IF a = "T" \/ b = "T" THEN "T"
    ELSE IF a = "F" /\ b = "F" THEN "F" ELSE "N"

equal(x, y) == IF x = {} \/ y = {} THEN "N" ELSE Bool3(Get(x) = Get(y))

not_equal(x, y) == IF x = {} \/ y = {} THEN "N" ELSE Bool3(Get(x) # Get(y))

(* greater_equal as a strict comparison. *)
greater(x, y) == IF x = {} \/ y = {} THEN "N" ELSE Bool3(Get(x) > Get(y))

greater_equal(x, y) == IF x = {} \/ y = {} THEN "N" ELSE Bool3(Get(x) >= Get(y))

invert(a) == IF a = "N" THEN "N" ELSE Bool3(a = "F")

is_in(x, value_set) == Bool3(x # {} /\ Get(x) \in value_set)

Range(seq) == {seq[i] : i \in 1..Len(seq)}

(* The rows of t whose filter value is "T", in the order of t; mask[n] is   *)
(* the value of the filter expression on row n.                            *)
RECURSIVE to_table(_, _)
to_table(t, mask) ==
    IF t = <<>> THEN <<>>
    ELSE LET n == Len(t)
             front == to_table(SubSeq(t, 1, n - 1), SubSeq(mask, 1, n - 1))
         IN IF mask[n] = "T" THEN Append(front, t[n]) ELSE front

Column(t, name) == [i \in 1..Len(t) |-> t[i][name]]

RECURSIVE unique(_)
unique(arr) ==
    IF arr = <<>> THEN <<>>
    ELSE LET n == Len(arr)
             front == unique(SubSeq(arr, 1, n - 1))
         IN IF arr[n] \in Range(front) THEN front ELSE Append(front, arr[n])

utf8_slice_codeunits(x, start, stop) ==
    IF x = {} THEN {}
    ELSE LET s == Get(x)
             hi == IF stop < Len(s) THEN stop ELSE Len(s)
         IN {SubSeq(s, start + 1, hi)}

Slice(seq, offset, length) ==
    LET hi == IF offset + length < Len(seq) THEN offset + length ELSE Len(seq)
    IN SubSeq(seq, offset + 1, hi)

----------------------------------------------------------------------------
(* Errors                                                                  *)

NoError == [type |-> "none", message |-> "", identifiers |-> <<>>]

ValueError(msg) == [type |-> "ValueError", message |-> msg, identifiers |-> <<>>]

_format_error_message(invalid_rows, message) ==
    [type |-> "ValueError", message |-> message,
     identifiers |-> Slice(Column(invalid_rows, "unit_id"), 0, 5)]

VARIABLES table, temporality_type, pc, status, error, executed,
          identifier_time_spans, temporal_data

vars == <<table, temporality_type, pc, status, error, executed,
          identifier_time_spans, temporal_data>>

NoTemporalData ==
    [result |-> "unset", start |-> <<>>, latest |-> <<>>,
     hasStatusDates |-> FALSE, statusDates |-> <<>>]

Init ==
    /\ table \in Tables
    /\ temporality_type \in TemporalityTypes
    /\ pc = "ready"
    /\ status = "idle"
    /\ error = NoError
    /\ executed = <<>>
    /\ identifier_time_spans = <<>>
    /\ temporal_data = NoTemporalData

(* A rule that ran: either it raised and the run is over, or the run moves  *)
(* on to the next rule (or returns when there is none).                     *)
Raise(rule, e) ==
    /\ pc' = rule
    /\ status' = "failed"
    /\ error' = e
    /\ executed' = Append(executed, rule)

Pass(rule, final) ==
    /\ pc' = rule
    /\ status' = IF final THEN "passed" ELSE "running"
    /\ error' = NoError
    /\ executed' = Append(executed, rule)

----------------------------------------------------------------------------
(* Column-predicate rules                                                  *)

valid_unit_id_check ==
    /\ pc = "ready"
    /\ LET invalid_rows_filter(r) ==
               or_kleene(is_null(r.unit_id), equal(r.unit_id, {<<>>}))
           invalid_rows == to_table(table, [n \in DOMAIN table |-> invalid_rows_filter(table[n])])
       IN IF Len(invalid_rows) > 0
          THEN Raise("valid_unit_id_check", ValueError("valid_unit_id_column_check"))
          ELSE Pass("valid_unit_id_check", FALSE)
    /\ UNCHANGED <<table, temporality_type, identifier_time_spans, temporal_data>>

Codes(list) == {list[i].code : i \in 1..Len(list)}

RECURSIVE SetToSeq(_)
SetToSeq(S) ==
    IF S = {} THEN <<>> ELSE LET x == CHOOSE y \in S : TRUE IN <<x>> \o SetToSeq(S \ {x})

valid_value_column_check ==
    /\ pc = "valid_unit_id_check"
    /\ status = "running"
    /\ \E data_type \in DataTypes, code_list \in CodeLists, sentinel_list \in SentinelLists :
         /\ data_type # "STRING" => \A i \in 1..Len(table) : table[i].value # {""}
         /\ LET invalid_rows_filter(r) ==
                    IF data_type = "STRING"
                    THEN or_kleene(is_null(r.value), equal(r.value, {""}))
                    ELSE is_null(r.value)
                invalid_rows == to_table(table, [n \in DOMAIN table |-> invalid_rows_filter(table[n])])
                unique_codes ==
                    SetToSeq(Codes(Get(code_list)))
                        \o (IF sentinel_list # {}
                            THEN SetToSeq(Codes(Get(sentinel_list))) ELSE <<>>)
                invalid_code_filter(r) == invert(is_in(r.value, Range(unique_codes)))
                invalid_code_rows == to_table(table, [n \in DOMAIN table |-> invalid_code_filter(table[n])])
            IN IF Len(invalid_rows) > 0
               THEN Raise("valid_value_column_check", ValueError("valid_value_column_check"))
               ELSE IF code_list # {} /\ Get(code_list) # <<>> /\ Len(invalid_code_rows) > 0
               THEN Raise("valid_value_column_check", ValueError("invalid code list rows"))
               ELSE Pass("valid_value_column_check", FALSE)
    /\ UNCHANGED <<table, temporality_type, identifier_time_spans, temporal_data>>

(* The dispatch taken right after identifier validity, without the value rule. *)
DispatchBeforeValueCheck(t) ==
    /\ pc = "valid_unit_id_check"
    /\ status = "running"
    /\ temporality_type = t

Dispatch(t) ==
    /\ pc = "valid_value_column_check"
    /\ status = "running"
    /\ temporality_type = t

fixed_temporal_variables_check ==
    /\ Dispatch("FIXED")
    /\ LET invalid_rows_filter(r) ==
               or_kleene(is_valid(r.start_epoch_days), is_null(r.stop_epoch_days))
           invalid_rows == to_table(table, [n \in DOMAIN table |-> invalid_rows_filter(table[n])])
       IN IF Len(invalid_rows) > 0
          THEN Raise("fixed_temporal_variables_check",
                     ValueError("valid_unit_id_column_check"))
          ELSE Pass("fixed_temporal_variables_check", FALSE)
    /\ UNCHANGED <<table, temporality_type, identifier_time_spans, temporal_data>>

status_temporal_variables_check ==
    /\ Dispatch("STATUS")
    /\ LET null_filter(r) ==
               or_kleene(is_null(r.stop_epoch_days), is_null(r.start_epoch_days))
           differ_filter(r) == not_equal(r.start_epoch_days, r.stop_epoch_days)
       IN IF Len(to_table(table, [n \in DOMAIN table |-> null_filter(table[n])])) > 0
          THEN Raise("status_temporal_variables_check",
                     ValueError("No row can have an empty start or stop column with temporalityType: STATUS"))
          ELSE IF Len(to_table(table, [n \in DOMAIN table |-> differ_filter(table[n])])) > 0
          THEN Raise("status_temporal_variables_check",
                     ValueError("start did not equal stop"))
          ELSE Pass("status_temporal_variables_check", FALSE)
    /\ UNCHANGED <<table, temporality_type, identifier_time_spans, temporal_data>>

(* The f-string of the two rules below prints the offending rows after the *)
(* rule's name; identifiers holds the unit_id column that print shows.     *)
RowsError(msg, invalid_rows) ==
    [type |-> "ValueError", message |-> msg,
     identifiers |-> Column(invalid_rows, "unit_id")]

event_temporal_variables_check ==
    /\ Dispatch("EVENT")
    /\ LET invalid_rows_filter(r) ==
               or_kleene(is_null(r.start_epoch_days),
                         greater_equal(r.start_epoch_days, r.stop_epoch_days))
           invalid_rows == to_table(table, [n \in DOMAIN table |-> invalid_rows_filter(table[n])])
       IN IF Len(invalid_rows) > 0
          THEN Raise("event_temporal_variables_check",
                     RowsError("valid_event_temporal_columns_check", invalid_rows))
          ELSE Pass("event_temporal_variables_check", FALSE)
    /\ UNCHANGED <<table, temporality_type, identifier_time_spans, temporal_data>>

accumulated_temporal_variables_check ==
    /\ Dispatch("ACCUMULATED")
    /\ LET invalid_rows_filter(r) ==
               or_kleene(or_kleene(is_null(r.start_epoch_days),
                                   is_null(r.stop_epoch_days)),
                         greater_equal(r.start_epoch_days, r.stop_epoch_days))
           invalid_rows == to_table(table, [n \in DOMAIN table |-> invalid_rows_filter(table[n])])
       IN IF Len(invalid_rows) > 0
          THEN Raise("accumulated_temporal_variables_check",
                     RowsError("valid_accumulated_temporal_columns_check", invalid_rows))
          ELSE Pass("accumulated_temporal_variables_check", FALSE)
    /\ UNCHANGED <<table, temporality_type, identifier_time_spans, temporal_data>>

----------------------------------------------------------------------------
(* Uniqueness engine                                                       *)

(* The bucket check counting the distinct buckets instead of the distinct identifiers. *)
BucketFailsCountingBuckets(t) ==
    LET bucket == [i \in 1..Len(t) |-> utf8_slice_codeunits(t[i].unit_id, 0, 1)]
        identifiers == [i \in 1..Len(t) |-> [bucket |-> bucket[i], unit_id |-> t[i].unit_id]]
        unique_buckets == unique(bucket)
    IN \E k \in 1..Len(unique_buckets) :
          LET in_bucket(r) == equal(r.bucket, unique_buckets[k])
              bucket_table == to_table(identifiers, [n \in DOMAIN identifiers |-> in_bucket(identifiers[n])])
              bucket_row_count == Len(bucket_table)
              unique_identifiers_count == Len(unique(Column(bucket_table, "bucket")))
          IN unique_identifiers_count # bucket_row_count

BucketFails(t) ==
    LET bucket == [i \in 1..Len(t) |-> utf8_slice_codeunits(t[i].unit_id, 0, 1)]
        identifiers == [i \in 1..Len(t) |-> [bucket |-> bucket[i], unit_id |-> t[i].unit_id]]
        unique_buckets == unique(bucket)
    IN \E k \in 1..Len(unique_buckets) :
          LET in_bucket(r) == equal(r.bucket, unique_buckets[k])
              bucket_table == to_table(identifiers, [n \in DOMAIN identifiers |-> in_bucket(identifiers[n])])
              bucket_row_count == Len(bucket_table)
              unique_identifiers_count == Len(unique(Column(bucket_table, "unit_id")))
          IN unique_identifiers_count # bucket_row_count

only_unique_identifiers_check ==
    /\ pc = "fixed_temporal_variables_check"
    /\ status = "running"
    /\ IF BucketFails(table)
       THEN Raise("only_unique_identifiers_check", ValueError("identifier diff"))
       ELSE Pass("only_unique_identifiers_check", TRUE)
    /\ UNCHANGED <<table, temporality_type, identifier_time_spans, temporal_data>>

(* The status check without the filter on the status date. *)
StatusDateFailsUnfiltered(t) ==
    LET unique_status_dates == unique(Column(t, "start_epoch_days"))
    IN \E k \in 1..Len(unique_status_dates) :
          LET status_table == t
              unique_identifiers == unique(Column(status_table, "unit_id"))
          IN Len(unique_identifiers) # Len(status_table)

StatusDateFails(t) ==
    LET unique_status_dates == unique(Column(t, "start_epoch_days"))
    IN \E k \in 1..Len(unique_status_dates) :
          LET on_date(r) == equal(r.start_epoch_days, unique_status_dates[k])
              status_table == to_table(t, [n \in DOMAIN t |-> on_date(t[n])])
              unique_identifiers == unique(Column(status_table, "unit_id"))
          IN Len(unique_identifiers) # Len(status_table)

status_uniquesness_check ==
    /\ pc = "status_temporal_variables_check"
    /\ status = "running"
    /\ IF StatusDateFails(table)
       THEN Raise("status_uniquesness_check", ValueError("status uniqueness fail"))
       ELSE Pass("status_uniquesness_check", TRUE)
    /\ UNCHANGED <<table, temporality_type, identifier_time_spans, temporal_data>>

----------------------------------------------------------------------------
(* Overlap detection engine                                                *)

BATCH_SIZE == 5000000

(* find_overlap: "True", "False", or "TypeError" when the comparison meets *)
(* a null start.                                                           *)
(* find_overlap comparing with >= instead of >. *)
RECURSIVE find_overlap_from_ge(_, _, _)
find_overlap_from_ge(start_list, stop_list, i) ==
    IF i >= Len(start_list) - 1 THEN "False"
    ELSE IF stop_list[i + 1] = {} THEN "True"
    ELSE IF start_list[i + 2] = {} THEN "TypeError"
    ELSE IF Get(stop_list[i + 1]) >= Get(start_list[i + 2]) THEN "True"
    ELSE find_overlap_from_ge(start_list, stop_list, i + 1)

RECURSIVE find_overlap_from(_, _, _)
find_overlap_from(start_list, stop_list, i) ==
    IF i >= Len(start_list) - 1 THEN "False"
    ELSE IF stop_list[i + 1] = {} THEN "True"
    ELSE IF start_list[i + 2] = {} THEN "TypeError"
    ELSE IF Get(stop_list[i + 1]) > Get(start_list[i + 2]) THEN "True"
    ELSE find_overlap_from(start_list, stop_list, i + 1)

find_overlap(start_list, stop_list) == find_overlap_from(start_list, stop_list, 0)

(* batch stepping one identifier too far between two batches. *)
RECURSIVE batch_from_skipping(_, _, _)
batch_from_skipping(iterable, batch_size, index) ==
    IF index >= Len(iterable) THEN <<>>
    ELSE <<Slice(iterable, index, batch_size)>>
             \o batch_from_skipping(iterable, batch_size, index + batch_size + 1)

RECURSIVE batch_from(_, _, _)
batch_from(iterable, batch_size, index) ==
    IF index >= Len(iterable) THEN <<>>
    ELSE <<Slice(iterable, index, batch_size)>>
             \o batch_from(iterable, batch_size, index + batch_size)

batch(iterable, batch_size) == batch_from(iterable, batch_size, 0)

(* sort_by start_epoch_days ascending, nulls last: every order of the rows *)
(* the sort may produce, ties in any order.                                *)
StartBefore(a, b) ==
    \/ b.start_epoch_days = {}
    \/ a.start_epoch_days # {} /\ Get(a.start_epoch_days) <= Get(b.start_epoch_days)

sort_by(t) ==
    {[k \in 1..Len(t) |-> t[p[k]]] :
        p \in {q \in [1..Len(t) -> 1..Len(t)] :
                 /\ \A i, j \in 1..Len(t) : i # j => q[i] # q[j]
                 /\ \A i \in 1..(Len(t) - 1) : StartBefore(t[q[i]], t[q[i + 1]])}}

(* group_by unit_id with list aggregation of a sorted table: the lists of  *)
(* one identifier, in the order of the sort.                               *)
RECURSIVE RowsOf(_, _)
RowsOf(t, u) ==
    IF t = <<>> THEN <<>>
    ELSE (IF t[1].unit_id = u THEN <<t[1]>> ELSE <<>>) \o RowsOf(Tail(t), u)

start_epoch_days_list(t, u) == Column(RowsOf(t, u), "start_epoch_days")

stop_epoch_days_list(t, u) == Column(RowsOf(t, u), "stop_epoch_days")

GroupResult(spans, u) ==
    find_overlap(start_epoch_days_list(spans, u), stop_epoch_days_list(spans, u))

ValidationError(u) ==
    [type |-> "ValidationError", message |-> "Found overlapping timespans for dataset",
     identifiers |-> <<u>>]

TypeError == [type |-> "TypeError", message |-> "", identifiers |-> <<>>]

(* The outcomes of the loop over the batches from batch number k on: the   *)
(* first batch holding a group for which find_overlap does not return      *)
(* False ends the run; group_by fixes no order of the groups, so any such  *)
(* group of that batch may be the one met first.                           *)
(* The rows of the table whose unit_id is in the batch of identifiers. *)
BatchRows(t, identifier_batch) ==
    LET in_batch(r) == Bool3(r.unit_id \in Range(identifier_batch))
    IN to_table(t, [n \in DOMAIN t |-> in_batch(t[n])])

RECURSIVE BatchOutcomes(_, _, _)
BatchOutcomes(t, batches, k) ==
    IF k > Len(batches) THEN {[error |-> NoError, spans |-> <<>>]}
    ELSE LET selected == BatchRows(t, batches[k])
             groups(spans) == {spans[i].unit_id : i \in 1..Len(spans)}
             hits(spans) == {u \in groups(spans) : GroupResult(spans, u) # "False"}
         IN UNION {IF hits(spans) = {}
                   THEN {[error |-> o.error,
                          spans |-> IF o.spans = <<>> THEN spans ELSE o.spans] :
                             o \in BatchOutcomes(t, batches, k + 1)}
                   ELSE {[error |-> IF GroupResult(spans, u) = "True"
                                    THEN ValidationError(u) ELSE TypeError,
                          spans |-> spans] : u \in hits(spans)}
                   : spans \in sort_by(selected)}

OverlapOutcomes(t, batch_size) ==
    LET unique_identifiers == unique(Column(t, "unit_id"))
    IN BatchOutcomes(t, batch(unique_identifiers, batch_size), 1)

no_overlapping_timespans_check ==
    /\ pc \in {"accumulated_temporal_variables_check", "event_temporal_variables_check"}
    /\ status = "running"
    /\ \E o \in OverlapOutcomes(table, BATCH_SIZE) :
         /\ identifier_time_spans' = o.spans
         /\ IF o.error # NoError
            THEN Raise("no_overlapping_timespans_check", o.error)
            ELSE Pass("no_overlapping_timespans_check", TRUE)
    /\ UNCHANGED <<table, temporality_type, temporal_data>>

----------------------------------------------------------------------------
(* Temporal coverage summarizer                                            *)

IsLeap(y) == (y % 4 = 0 /\ y % 100 # 0) \/ y % 400 = 0

DaysInYear(y) == IF IsLeap(y) THEN 366 ELSE 365

DaysInMonth(y, m) ==
    IF m = 2 THEN (IF IsLeap(y) THEN 29 ELSE 28)
    ELSE IF m \in {4, 6, 9, 11} THEN 30 ELSE 31

(* The date d days after the first day of month m of year y. *)
RECURSIVE DateFrom(_, _, _)
DateFrom(y, m, d) ==
    IF d < 0 THEN DateFrom(y - 1, 1, d + DaysInYear(y - 1))
    ELSE IF m = 1 /\ d >= DaysInYear(y) THEN DateFrom(y + 1, 1, d - DaysInYear(y))
    ELSE IF d >= DaysInMonth(y, m) THEN DateFrom(y, m + 1, d - DaysInMonth(y, m))
    ELSE <<y, m, d + 1>>

(* (datetime(1970, 1, 1) + timedelta(days=days)).strftime("%Y-%m-%d") *)
strftime(days) == DateFrom(1970, 1, days)

Valid(arr) == {Get(arr[i]) : i \in {j \in 1..Len(arr) : arr[j] # {}}}

Min(S) == CHOOSE x \in S : \A y \in S : x <= y

Max(S) == CHOOSE x \in S : \A y \in S : x >= y

compute_max(arr) == IF Valid(arr) = {} THEN {} ELSE {Max(Valid(arr))}

compute_min(arr) == IF Valid(arr) = {} THEN {} ELSE {Min(Valid(arr))}

TemporalData(res, s, l, has, dates) ==
    [result |-> res, start |-> s, latest |-> l,
     hasStatusDates |-> has, statusDates |-> dates]

TemporalFailure(exception) == TemporalData(exception, <<>>, <<>>, FALSE, <<>>)

get_temporal_data_result(t, temporality) ==
    LET stop_max == compute_max(Column(t, "stop_epoch_days"))
        stop_min == compute_min(Column(t, "stop_epoch_days"))
        start_max == compute_max(Column(t, "start_epoch_days"))
        start_min == compute_min(Column(t, "start_epoch_days"))
        min_dates == start_min \cup stop_min
        max_dates == start_max \cup stop_max
        status_days == unique(Column(t, "start_epoch_days"))
        coverage ==
            IF temporality = "FIXED"
            THEN IF stop_max = {} THEN TemporalFailure("TypeError")
                 ELSE TemporalData("ok", <<1900, 1, 1>>, strftime(Get(stop_max)), FALSE, <<>>)
            ELSE IF min_dates = {} THEN TemporalFailure("ValueError")
                 ELSE TemporalData("ok", strftime(Min(min_dates)), strftime(Max(max_dates)),
                                   FALSE, <<>>)
    IN IF coverage.result # "ok" \/ temporality # "STATUS" THEN coverage
       ELSE IF {} \in Range(status_days) THEN TemporalFailure("TypeError")
       ELSE [coverage EXCEPT !.hasStatusDates = TRUE,
                             !.statusDates = [k \in 1..Len(status_days) |->
                                                 strftime(Get(status_days[k]))]]

get_temporal_data ==
    /\ pc = "ready"
    /\ pc' = "get_temporal_data"
    /\ temporal_data' = get_temporal_data_result(table, temporality_type)
    /\ UNCHANGED <<table, temporality_type, status, error, executed, identifier_time_spans>>

Next ==
    \/ get_temporal_data
    \/ valid_unit_id_check
    \/ valid_value_column_check
    \/ fixed_temporal_variables_check
    \/ status_temporal_variables_check
    \/ event_temporal_variables_check
    \/ accumulated_temporal_variables_check
    \/ only_unique_identifiers_check
    \/ status_uniquesness_check
    \/ no_overlapping_timespans_check

Spec == Init /\ [][Next]_vars


----------------------------------------------------------------------------
(* Properties                                                              *)

Ran(rule) == pc = rule

Failed(rule) == pc = rule /\ status = "failed"

Rows == 1..Len(table)

Spans == 1..Len(identifier_time_spans)

(* Rows i < j of the sorted table are consecutive intervals of one          *)
(* identifier.                                                             *)
Consecutive(i, j) ==
    /\ i < j
    /\ identifier_time_spans[i].unit_id = identifier_time_spans[j].unit_id
    /\ \A k \in Spans :
          i < k /\ k < j => identifier_time_spans[k].unit_id # identifier_time_spans[i].unit_id

Overlapping(u) ==
    \E i, j \in Spans :
        /\ identifier_time_spans[i].unit_id = u
        /\ Consecutive(i, j)
        /\ \/ identifier_time_spans[i].stop_epoch_days = {}
           \/ /\ identifier_time_spans[j].start_epoch_days # {}
              /\ Get(identifier_time_spans[i].stop_epoch_days)
                    > Get(identifier_time_spans[j].start_epoch_days)

Count(t, r) == Cardinality({i \in 1..Len(t) : t[i] = r})

OrderedByStart ==
    /\ \A r \in RowDomain : Count(identifier_time_spans, r) = Count(table, r)
    /\ \A i, j \in Spans :
          i < j => StartBefore(identifier_time_spans[i], identifier_time_spans[j])

(* C1: no_overlapping_timespans_check fails, reporting an identifier, if   *)
(* and only if some identifier's rows ordered by start_epoch_days contain  *)
(* an interval before the last one whose stop is null or greater than the  *)
(* next interval's start; the reported identifier is such an identifier.   *)
C1_OverlapIffAdjacentViolation ==
    Ran("no_overlapping_timespans_check") =>
        /\ OrderedByStart
        /\ status = "failed" <=> \E i \in Rows : Overlapping(table[i].unit_id)
        /\ status = "failed" =>
              /\ error.type = "ValidationError"
              /\ Len(error.identifiers) = 1
              /\ Overlapping(error.identifiers[1])

C1_Witness ==
    /\ Ran("no_overlapping_timespans_check")
    /\ status = "passed"
    /\ \E i, j \in Spans :
          /\ Consecutive(i, j)
          /\ identifier_time_spans[i].stop_epoch_days = identifier_time_spans[j].start_epoch_days
          /\ identifier_time_spans[j].stop_epoch_days = {}

(* C2: only_unique_identifiers_check passes if and only if no unit_id      *)
(* value occurs in more than one row of the whole table.                   *)
C2_BucketedIffGloballyUnique ==
    Ran("only_unique_identifiers_check") =>
        (status = "failed" <=>
            \E i, j \in Rows : i # j /\ table[i].unit_id = table[j].unit_id)

C2_Witness ==
    /\ Ran("only_unique_identifiers_check")
    /\ status = "passed"
    /\ \E i, j \in Rows :
          /\ table[i].unit_id # table[j].unit_id
          /\ Get(table[i].unit_id)[1] = Get(table[j].unit_id)[1]
    /\ \E i, j \in Rows : Get(table[i].unit_id)[1] # Get(table[j].unit_id)[1]

(* C3: the pass/fail result of no_overlapping_timespans_check is the same  *)
(* for every batch size: every distinct identifier falls in exactly one    *)
(* batch, every row of an identifier is selected with its batch, and the   *)
(* check fails under one batch size exactly when it fails under another.   *)
BatchSizes == {1, 2, BATCH_SIZE}

Fails(outcomes) == {o.error # NoError : o \in outcomes}

C3_BatchSizeInvariant ==
    (\/ Ran("no_overlapping_timespans_check")
     \/ status = "running" /\ (\/ Ran("event_temporal_variables_check")
                               \/ Ran("accumulated_temporal_variables_check"))) =>
        \A batch_size \in BatchSizes :
            LET batches == batch(unique(Column(table, "unit_id")), batch_size)
            IN /\ \A i \in Rows :
                     Cardinality({k \in 1..Len(batches) :
                                     table[i].unit_id \in Range(batches[k])}) = 1
               /\ \A k \in 1..Len(batches) : \A u \in Range(batches[k]) :
                     Len(RowsOf(BatchRows(table, batches[k]), u)) = Len(RowsOf(table, u))
               /\ Fails(OverlapOutcomes(table, batch_size))
                     = Fails(OverlapOutcomes(table, BATCH_SIZE))
               /\ Ran("no_overlapping_timespans_check") =>
                     Fails(OverlapOutcomes(table, batch_size)) = {status = "failed"}

C3_Witness ==
    /\ Failed("no_overlapping_timespans_check")
    /\ LET batches == batch(unique(Column(table, "unit_id")), 1)
       IN /\ Len(batches) = 2
          /\ error.identifiers[1] \in Range(batches[2])
          /\ \A o \in OverlapOutcomes(table, BATCH_SIZE) :
                o.error.identifiers = error.identifiers

(* C4: validate_dataset runs identifier validity, value validity, the      *)
(* temporal-field rule of the temporality type and then that type's        *)
(* uniqueness or overlap rule, in this order; the first rule that fails    *)
(* ends the run, no rule runs after a failure, and the run succeeds only   *)
(* when every rule of the list has run and passed.                         *)
TemporalRule(t) ==
    CASE t = "FIXED" -> "fixed_temporal_variables_check"
      [] t = "STATUS" -> "status_temporal_variables_check"
      [] t = "EVENT" -> "event_temporal_variables_check"
      [] t = "ACCUMULATED" -> "accumulated_temporal_variables_check"

FinalRule(t) ==
    CASE t = "FIXED" -> "only_unique_identifiers_check"
      [] t = "STATUS" -> "status_uniquesness_check"
      [] t \in {"EVENT", "ACCUMULATED"} -> "no_overlapping_timespans_check"

RuleOrder(t) ==
    <<"valid_unit_id_check", "valid_value_column_check", TemporalRule(t), FinalRule(t)>>

C4_FixedOrderFirstFailureAborts ==
    /\ [](/\ Len(executed) <= 4
          /\ executed = SubSeq(RuleOrder(temporality_type), 1, Len(executed))
          /\ status = "passed" => executed = RuleOrder(temporality_type)
          /\ status = "failed" => executed # <<>> /\ pc = executed[Len(executed)]
          /\ status = "running" => executed # <<>> /\ Len(executed) < 4)
    /\ [][status = "failed" => executed' = executed /\ status' = "failed"]_vars

C4_Witness ==
    /\ status = "failed"
    /\ temporality_type = "STATUS"
    /\ executed = <<"valid_unit_id_check", "valid_value_column_check",
                    "status_temporal_variables_check">>

(* C5: the temporal-field rule of a temporality type fails if and only if  *)
(* some row violates the type's row predicate.                             *)
RowValid(t, r) ==
    LET start == r.start_epoch_days
        stop == r.stop_epoch_days
    IN CASE t = "FIXED" -> start = {} /\ stop # {}
         [] t = "STATUS" -> start # {} /\ stop # {} /\ Get(start) = Get(stop)
         [] t = "EVENT" -> start # {} /\ (stop = {} \/ Get(stop) > Get(start))
         [] t = "ACCUMULATED" -> start # {} /\ stop # {} /\ Get(stop) > Get(start)

C5_TemporalRuleIffRowPredicate ==
    \A t \in TemporalityTypes :
        Ran(TemporalRule(t)) =>
            /\ temporality_type = t
            /\ status = "failed" <=> \E i \in Rows : ~RowValid(t, table[i])

C5_Witness ==
    /\ Ran("event_temporal_variables_check")
    /\ status = "running"
    /\ \E i, j \in Rows :
          table[i].stop_epoch_days = {} /\ table[j].stop_epoch_days # {}

(* C6: status_uniquesness_check fails if and only if two different rows    *)
(* have the same start_epoch_days and the same unit_id.                    *)
C6_StatusUniquePerDate ==
    Ran("status_uniquesness_check") =>
        (status = "failed" <=>
            \E i, j \in Rows :
                /\ i # j
                /\ table[i].start_epoch_days = table[j].start_epoch_days
                /\ table[i].unit_id = table[j].unit_id)

C6_Witness ==
    /\ Ran("status_uniquesness_check")
    /\ status = "passed"
    /\ \E i, j \in Rows :
          /\ table[i].unit_id = table[j].unit_id
          /\ table[i].start_epoch_days # table[j].start_epoch_days
    /\ \E i, j \in Rows :
          /\ table[i].unit_id # table[j].unit_id
          /\ table[i].start_epoch_days = table[j].start_epoch_days

(* C7: when a column-predicate rule fails, the error carries the unit_id   *)
(* of the first 5 offending rows, all of them when fewer than 5 offend,    *)
(* and never more than 5.                                                  *)
ColumnRules ==
    {"valid_unit_id_check", "valid_value_column_check"}
        \cup {TemporalRule(t) : t \in TemporalityTypes}

(* The offending rows of the failed rule; the value rule's depend on the   *)
(* measure type and on the codes it was given.                             *)
Offending(rule) ==
    LET BadId(r) == r.unit_id \in {{}, {<<>>}}
        NullValue(r) == r.value = {}
        EmptyValue(r) == r.value \in {{}, {""}}
        BadTemporal(r) == ~RowValid(temporality_type, r)
    IN IF rule = "valid_unit_id_check" THEN {SelectSeq(table, BadId)}
       ELSE IF rule = "valid_value_column_check"
       THEN {SelectSeq(table, NullValue), SelectSeq(table, EmptyValue)}
                \cup {LET NotListed(r) == r.value = {} \/ Get(r.value) \notin codes
                      IN SelectSeq(table, NotListed) : codes \in SUBSET {"c1", "s1"}}
       ELSE {SelectSeq(table, BadTemporal)}

C7_ErrorCarriesFirstFiveIdentifiers ==
    status = "failed" /\ pc \in ColumnRules =>
        \E invalid_rows \in Offending(pc) :
            /\ invalid_rows # <<>>
            /\ error.identifiers = Slice(Column(invalid_rows, "unit_id"), 0, 5)

(* C8: get_temporal_data does not fail on a table with at least one row:   *)
(* it returns a coverage start and a coverage end, and for STATUS the      *)
(* status dates.                                                           *)
C8_SummaryNeverFailsOnNonEmptyTable ==
    Ran("get_temporal_data") /\ Len(table) > 0 =>
        /\ temporal_data.result = "ok"
        /\ temporal_data.start # <<>>
        /\ temporal_data.latest # <<>>
        /\ temporality_type = "STATUS" => temporal_data.hasStatusDates

(* C9: the message of a rule violation tells which rule failed: no rule    *)
(* raises the message of a different rule.                                 *)
MessagesOf(rule) ==
    CASE rule = "valid_unit_id_check" -> {"valid_unit_id_column_check"}
      [] rule = "valid_value_column_check" ->
            {"valid_value_column_check", "invalid code list rows"}
      [] rule = "fixed_temporal_variables_check" -> {"valid_unit_id_column_check"}
      [] rule = "status_temporal_variables_check" ->
            {"No row can have an empty start or stop column with temporalityType: STATUS",
             "start did not equal stop"}
      [] rule = "event_temporal_variables_check" -> {"valid_event_temporal_columns_check"}
      [] rule = "accumulated_temporal_variables_check" ->
            {"valid_accumulated_temporal_columns_check"}
      [] rule = "only_unique_identifiers_check" -> {"identifier diff"}
      [] rule = "status_uniquesness_check" -> {"status uniqueness fail"}
      [] rule = "no_overlapping_timespans_check" ->
            {"Found overlapping timespans for dataset"}

Rules == UNION {Range(RuleOrder(t)) : t \in TemporalityTypes}

C9_MessageIdentifiesRule ==
    status = "failed" =>
        /\ error.message \in MessagesOf(pc)
        /\ \A rule \in Rules \ {pc} : error.message \notin MessagesOf(rule)

(* C10: the overlap check does not depend on the order of rows with equal  *)
(* start_epoch_days: every order the sort may produce gives each           *)
(* identifier the same result, and an identifier with two intervals of     *)
(* equal start is reported as overlapping in every such order.             *)
EqualStarts(u) ==
    \E i, j \in Rows :
        /\ i # j
        /\ table[i].unit_id = u /\ table[j].unit_id = u
        /\ table[i].start_epoch_days = table[j].start_epoch_days

C10_TieOrderIrrelevant ==
    (\/ Ran("no_overlapping_timespans_check")
     \/ status = "running" /\ (\/ Ran("event_temporal_variables_check")
                               \/ Ran("accumulated_temporal_variables_check"))) =>
        /\ \A i \in Rows : \A spans1, spans2 \in sort_by(table) :
              /\ GroupResult(spans1, table[i].unit_id) = GroupResult(spans2, table[i].unit_id)
              /\ EqualStarts(table[i].unit_id) =>
                    GroupResult(spans1, table[i].unit_id) = "True"
        /\ Ran("no_overlapping_timespans_check") /\ (\E i \in Rows : EqualStarts(table[i].unit_id))
              => status = "failed"

C10_Witness ==
    /\ Failed("no_overlapping_timespans_check")
    /\ \E spans \in sort_by(table) : spans # identifier_time_spans
    /\ \E i, j \in Rows :
          /\ i # j
          /\ table[i].unit_id = table[j].unit_id
          /\ table[i].start_epoch_days = table[j].start_epoch_days
          /\ table[i].stop_epoch_days = {}
          /\ table[j].stop_epoch_days # {}

====
